---- MODULE Spec2Model ----
(***************************************************************************)
(* greenlight-api: the request pipeline of cmd/api (rate limiter with its  *)
(* eviction sweep, bearer-token authentication, the authorization chain)   *)
(* and the token store of internal/data.                                   *)
(*                                                                         *)
(* Time is counted in ticks of 1/TicksPerSecond second.  A token bucket    *)
(* holds its tokens scaled by TicksPerSecond, so that the refill           *)
(* elapsed * rps of golang.org/x/time/rate stays an exact integer.         *)
(***************************************************************************)
EXTENDS Integers, Sequences, FiniteSets, TLC

(* ------------------------------ bounds -------------------------------- *)
TicksPerSecond == 2
MaxRps == 1
MaxBurst == 1
MaxPasses == 2
MaxRequests == 3
MaxClock == 2
MaxRecords == 7
MaxPageArg == 4
MaxSizeArg == 3
MaxVersion == 3
MaxInflight == 2

(* ------------------------- program constants -------------------------- *)
SweepSleepMinutes == 1
IdleMinutes == 3
TokenLen == 26
MaxPage == 10000000
MaxPageSize == 100
SendLoopEnd == 3
SendNoSleepAt == 3
SendSleepMillis == 500

Second == TicksPerSecond
Minute == 60 * Second
SweepSleep == SweepSleepMinutes * Minute
IdleThreshold == IdleMinutes * Minute

Handlers == {1, 2}
RemoteAddrs == {"10.0.0.1:40000", "10.0.0.2:40000"}
NoAddr == "-"

\* r.RemoteAddr as the server sets it, "IP:port", of connections that carry no
\* proxy header (realIP leaves it alone): two connections of one client, one
\* of another.  Host is the IP part of it (net.SplitHostPort).
ConnAddrs == {"10.0.0.1:40000", "10.0.0.1:40001", "10.0.0.2:40000"}
Host(addr) == IF addr \in {"10.0.0.1:40000", "10.0.0.1:40001"} THEN "10.0.0.1" ELSE "10.0.0.2"
Sweeper == 0
Unlocked == -1

Min(a, b) == IF a < b THEN a ELSE b

VARIABLES
    cfg,        \* app.config.limiter: [enabled, rps, burst]
    now,        \* time.Now(), in ticks
    passed,     \* number of times the clock was advanced
    mu,         \* rateLimit's mutex: Unlocked or the goroutine that holds it
    clients,    \* rateLimit's map: RemoteAddr -> [limiter, lastSeen]
    sweep,      \* the sweep goroutine: [pc, since, at, was]
    h,          \* the handler goroutines: [pc, ip, ok]
    served,     \* number of requests accepted by the server so far
    run,        \* history: per key, the limiter decisions of the latest instant
    ref,        \* history: per key, a token bucket that is never evicted
    tokens,     \* table tokens: rows [hash, user_id, expiry, scope]
    users,      \* table users: id -> [activated]
    permissions,\* tables permissions, user_permissions: user id -> set of codes
    issued,     \* history: the tokens TokenModel.New returned without error
    req,        \* the request in the authenticate / requirePermissions chain
    got,        \* the latest direct call of a model method and its result
    call,       \* a function of the program, its arguments and what it returned
    conns,      \* the requests being served below recoverPanic, per connection
    records,    \* a table with a version column (users, movies): id -> row
    editors,    \* the handlers that read a record and then update it
    srv,        \* serve(): its goroutines, the WaitGroup, the background tasks
    mail        \* the calls of Mailer.Send, per calling goroutine

limiterVars == <<cfg, mu, clients, sweep, h, served, run, ref>>
storeVars == <<tokens, users, permissions, issued, req, got>>
otherVars == <<call, conns, records, editors, srv, mail>>
vars == <<now, passed, limiterVars, storeVars, otherVars>>

(* ------------------- golang.org/x/time/rate.Limiter ------------------- *)
\* rate.NewLimiter(r, b): a bucket that starts full.
NewLimiter(r, b) == [limit |-> r, burst |-> b, tokens |-> b * TicksPerSecond, last |-> 0]

\* Limit.tokensFromDuration: no tokens at a limit <= 0.
tokensFromDuration(limit, d) == IF limit <= 0 THEN 0 ELSE d * limit

advanceWithoutRefill(lim, t) == Min(lim.burst * TicksPerSecond, lim.tokens)

\* Limiter.advance: the tokens the bucket holds at time t, capped at burst.
advance(lim, t) ==
    LET last    == IF t < lim.last THEN t ELSE lim.last
        elapsed == t - last
    IN  Min(lim.burst * TicksPerSecond, lim.tokens + tokensFromDuration(lim.limit, elapsed))

\* Limiter.Allow at time t: [ok, lim'].  A token is taken only when a whole
\* one is there; a refused call leaves the limiter as it was.
AllowMissesConsume(lim, t) ==
    LET have == advance(lim, t)
    IN  [ok |-> have >= TicksPerSecond /\ lim.burst >= 1, lim |-> lim]

Allow(lim, t) ==
    LET left == advance(lim, t) - TicksPerSecond
        ok   == left >= 0 /\ lim.burst >= 1
    IN  [ok  |-> ok,
         lim |-> IF ok THEN [lim EXCEPT !.tokens = left, !.last = t] ELSE lim]

(* ------------------------------ strings ------------------------------- *)
\* A string is the sequence of its characters.
Bearer == <<"B", "e", "a", "r", "e", "r">>
NoHeader == <<>>

\* strings.Split(s, sep) for a one-character separator.
RECURSIVE Split(_, _)
Split(s, sep) ==
    LET at == {i \in 1..Len(s) : s[i] = sep}
    IN  IF at = {}
        THEN <<s>>
        ELSE LET i == CHOOSE i \in at : \A j \in at : i <= j
             IN  <<SubSeq(s, 1, i - 1)>> \o Split(SubSeq(s, i + 1, Len(s)), sep)

\* sha256.Sum256: the digest of a text, taken to be free of collisions.  A
\* digest is never equal to a text.
Sum256(text) == [sha256 |-> text]

\* crypto/rand.Text(): 26 characters.  The texts it may return are taken to
\* be unguessable: two of them differ in more than one character.
RandText ==
    {[i \in 1..TokenLen |-> "A"],
     [i \in 1..TokenLen |-> IF i <= 2 THEN "B" ELSE "A"]}

(* ------------------------- internal/data: users ------------------------ *)
ScopeActivation == "activation"
ScopeAuthentication == "authentication"
Scopes == {ScopeActivation, ScopeAuthentication}

UserIDs == {"alice", "bob"}
\* The lifetimes a token is issued with, in ticks.
TTLs == {1, 2}
Codes == {"movies:read", "movies:write"}

\* var AnonymousUser = &User{}.  A *User is modelled with the identity of the
\* object it points to (ref): the package variable, or a User on the heap.
AnonymousUser == [ref |-> "AnonymousUser", ID |-> "", Activated |-> FALSE]
NilUser == [ref |-> "nil", ID |-> "", Activated |-> FALSE]

\* func (u *User) IsAnonymous() bool { return u == AnonymousUser }
IsAnonymous(u) == u.ref = AnonymousUser.ref

NoRequest ==
    [pc |-> "none", header |-> NoHeader, code |-> "", user |-> NilUser, resp |-> "",
     authNext |-> FALSE, lookups |-> 0, permFault |-> FALSE, tokenFault |-> FALSE]
NoCall == [call |-> "none", scope |-> "", userID |-> "", text |-> <<>>, at |-> 0,
           res |-> [err |-> "nil", user |-> NilUser]]

\* One request, or one call of the models, is followed at a time.
AtRest == req.pc = "none" /\ got.call = "none"

\* No function is being applied.
NoApplication == [fn |-> "none", in |-> <<>>, out |-> <<>>, done |-> FALSE]

\* The connections the server serves at a time.
Conns == {1, 2}
NoPanic == "nil"
IdleConn == [pc |-> "idle", stage |-> 0, pv |-> NoPanic, status |-> 0, close |-> FALSE,
             after |-> FALSE]

InitCall == call = NoApplication
InitConns == conns = [c \in Conns |-> IdleConn]
\* The rows of the table and the handlers that edit them.
RecordIDs == {1, 2}
Editors == {1, 2}
Contents == {"a", "b"}
NoCopy == [ID |-> 0, Version |-> 0, Content |-> ""]
IdleEditor == [pc |-> "idle", copy |-> NoCopy, read |-> 0, err |-> "nil"]

InitRecords ==
    /\ records = [id \in RecordIDs |-> [exists |-> TRUE, version |-> 1, content |-> "a"]]
    /\ editors = [e \in Editors |-> IdleEditor]

\* serve() has started the signal goroutine and called ListenAndServe; no
\* request is being served and no background task runs.
Tasks == {1, 2}

InitServe ==
    srv = [main |-> "ListenAndServe", ret |-> "", sig |-> "quit", accepting |-> TRUE,
           inflight |-> 0, wg |-> 0, tasks |-> [t \in Tasks |-> "none"],
           ended |-> [t \in Tasks |-> ""], crashed |-> FALSE,
           window |-> "unset", shutdownErr |-> FALSE]

\* No call of Mailer.Send is running.
Senders == {1, 2}
NoError == "nil"
IdleSender == [pc |-> "idle", i |-> 0, err |-> NoError, results |-> <<>>, slept |-> 0,
               ret |-> NoError]

InitMail == mail = [m \in Senders |-> IdleSender]

InitOther == InitCall /\ InitConns /\ InitRecords /\ InitServe /\ InitMail

\* The database when the server starts: alice is activated, bob is not; both
\* were given movies:read at registration.  No token is outstanding.
InitStore ==
    /\ tokens = {}
    /\ users = [u \in UserIDs |-> [activated |-> (u = "alice")]]
    /\ permissions = [u \in UserIDs |-> {"movies:read"}]
    /\ issued = {}
    /\ req = NoRequest
    /\ got = NoCall

(* ------------------------------- Init --------------------------------- *)
\* rateLimit(next) returns next itself when the limiter is disabled: no map,
\* no mutex, no sweep goroutine.
SweepStartsAlways(enabled) == [pc |-> "sleep", since |-> 0, at |-> 0, was |-> <<>>]

SweepStart(enabled) ==
    IF enabled THEN [pc |-> "sleep", since |-> 0, at |-> 0, was |-> <<>>]
               ELSE [pc |-> "off",   since |-> 0, at |-> 0, was |-> <<>>]

IdleHandler == [pc |-> "idle", ip |-> NoAddr, ok |-> FALSE, ref |-> FALSE]

NoRun == [at |-> -1, fresh |-> FALSE, tokens |-> 0, last |-> 0, outs |-> <<>>]

InitLimiter ==
    /\ cfg \in [enabled : BOOLEAN, rps : 0..MaxRps, burst : 0..MaxBurst]
    /\ now = 0
    /\ passed = 0
    /\ mu = Unlocked
    /\ clients = <<>>
    /\ sweep = SweepStart(cfg.enabled)
    /\ h = [g \in Handlers |-> IdleHandler]
    /\ served = 0
    /\ run = [k \in RemoteAddrs |-> NoRun]
    /\ ref = [k \in RemoteAddrs |-> NewLimiter(cfg.rps, cfg.burst)]
    /\ InitStore
    /\ InitOther

(* ------------------------------ clock --------------------------------- *)
\* Time passes between two steps of the program: by a tick or by the idle
\* threshold of the sweep.
Durations == {1, IdleThreshold}

Pass(d) ==
    /\ passed < MaxPasses
    /\ passed' = passed + 1
    /\ now' = now + d
    /\ run' = [k \in DOMAIN run |-> NoRun]
    /\ UNCHANGED <<cfg, mu, clients, sweep, h, served, ref>>
    /\ UNCHANGED <<storeVars, otherVars>>

(* ------------------- rateLimit: the request handler ------------------- *)
\* The server hands a request from RemoteAddr ip to a handler goroutine.  With
\* the limiter disabled the handler installed is next itself.
Arrive(g, ip) ==
    /\ h[g].pc = "idle"
    /\ served < MaxRequests
    /\ served' = served + 1
    /\ h' = [h EXCEPT ![g] = [pc |-> IF cfg.enabled THEN "lock" ELSE "next",
                              ip |-> ip, ok |-> FALSE, ref |-> FALSE]]
    /\ UNCHANGED <<cfg, now, passed, mu, clients, sweep, run, ref>>
    /\ UNCHANGED <<storeVars, otherVars>>

\* The entry of ip after the lookup-or-create: a missing entry gets a new
\* limiter built from the configuration.
Lookup(ip) ==
    IF ip \in DOMAIN clients
    THEN clients[ip]
    ELSE [limiter |-> NewLimiter(cfg.rps, cfg.burst), lastSeen |-> 0]

\* history: the decisions taken for ip at the instant now, with the bucket as
\* it was before the first of them.
Record(ip, ok) ==
    IF run[ip].at = now
    THEN [run[ip] EXCEPT !.outs = Append(@, ok)]
    ELSE [at     |-> now,
          fresh  |-> ip \notin DOMAIN clients,
          tokens |-> Lookup(ip).limiter.tokens,
          last   |-> Lookup(ip).limiter.last,
          outs   |-> <<ok>>]

\* lastSeen stamped only when Allow() says yes.
CriticalStampsAdmitted(g) ==
    /\ h[g].pc = "lock"
    /\ mu = Unlocked
    /\ mu' = g
    /\ LET ip  == h[g].ip
           res == Allow(Lookup(ip).limiter, now)
       IN  /\ clients' = (ip :> [limiter  |-> res.lim,
                                 lastSeen |-> IF res.ok THEN now ELSE Lookup(ip).lastSeen])
                           @@ clients
           /\ h' = [h EXCEPT ![g].ok = res.ok,
                             ![g].ref = Allow(ref[ip], now).ok,
                             ![g].pc = IF res.ok THEN "unlockNext" ELSE "unlockReject"]
           /\ run' = [run EXCEPT ![ip] = Record(ip, res.ok)]
           /\ ref' = [ref EXCEPT ![ip] = Allow(ref[ip], now).lim]
    /\ UNCHANGED <<cfg, now, passed, sweep, served>>
    /\ UNCHANGED <<storeVars, otherVars>>

\* history: ref[ip] is a bucket of the same configuration that takes the same
\* Allow() calls and is never deleted; h[g].ref keeps its answer.
\* mu.Lock() and, under the lock: look the client up or create it, stamp
\* lastSeen, Allow().  The lock stays held until the unlock of either path.
Critical(g) ==
    /\ h[g].pc = "lock"
    /\ mu = Unlocked
    /\ mu' = g
    /\ LET ip  == h[g].ip
           res == Allow(Lookup(ip).limiter, now)
       IN  /\ clients' = (ip :> [limiter |-> res.lim, lastSeen |-> now]) @@ clients
           /\ h' = [h EXCEPT ![g].ok = res.ok,
                             ![g].ref = Allow(ref[ip], now).ok,
                             ![g].pc = IF res.ok THEN "unlockNext" ELSE "unlockReject"]
           /\ run' = [run EXCEPT ![ip] = Record(ip, res.ok)]
           /\ ref' = [ref EXCEPT ![ip] = Allow(ref[ip], now).lim]
    /\ UNCHANGED <<cfg, now, passed, sweep, served>>
    /\ UNCHANGED <<storeVars, otherVars>>

\* mu.Unlock() on the refused path, then the 429 response.
UnlockReject(g) ==
    /\ h[g].pc = "unlockReject"
    /\ mu' = Unlocked
    /\ h' = [h EXCEPT ![g].pc = "reject"]
    /\ UNCHANGED <<cfg, now, passed, clients, sweep, served, run, ref>>
    /\ UNCHANGED <<storeVars, otherVars>>

RateLimitExceedResponse(g) ==
    /\ h[g].pc = "reject"
    /\ h' = [h EXCEPT ![g] = IdleHandler]
    /\ UNCHANGED <<cfg, now, passed, mu, clients, sweep, served, run, ref>>
    /\ UNCHANGED <<storeVars, otherVars>>

\* The unlock deferred: the handler goes on to next with the mutex held.
UnlockNextDeferred(g) ==
    /\ h[g].pc = "unlockNext"
    /\ h' = [h EXCEPT ![g].pc = "next"]
    /\ UNCHANGED <<cfg, now, passed, mu, clients, sweep, served, run, ref>>
    /\ UNCHANGED <<storeVars, otherVars>>

\* mu.Unlock() on the admitted path, then next.ServeHTTP.
UnlockNext(g) ==
    /\ h[g].pc = "unlockNext"
    /\ mu' = Unlocked
    /\ h' = [h EXCEPT ![g].pc = "next"]
    /\ UNCHANGED <<cfg, now, passed, clients, sweep, served, run, ref>>
    /\ UNCHANGED <<storeVars, otherVars>>

ServeNext(g) ==
    /\ h[g].pc = "next"
    /\ h' = [h EXCEPT ![g] = IdleHandler]
    /\ UNCHANGED <<cfg, now, passed, mu, clients, sweep, served, run, ref>>
    /\ UNCHANGED <<storeVars, otherVars>>

(* ------------------- rateLimit: the sweep goroutine ------------------- *)
IdleAtThreshold(entry, t) == t - entry.lastSeen >= IdleThreshold

\* time.Since(client.lastSeen) > 3*time.Minute
Idle(entry, t) == t - entry.lastSeen > IdleThreshold

\* The map after the range loop run at time t: the idle entries are deleted.
Swept(m, t) == [k \in {x \in DOMAIN m : ~Idle(m[x], t)} |-> m[k]]

\* time.Sleep(time.Minute) returns once at least a minute has passed; then
\* mu.Lock() and the range loop over the map, under the lock.
\* history: sweep.at and sweep.was keep the time of the loop and the map before it.
SweepLock ==
    /\ sweep.pc = "sleep"
    /\ now - sweep.since >= SweepSleep
    /\ mu = Unlocked
    /\ mu' = Sweeper
    /\ clients' = Swept(clients, now)
    /\ sweep' = [sweep EXCEPT !.pc = "swept", !.at = now, !.was = clients]
    /\ UNCHANGED <<cfg, now, passed, h, served, run, ref>>
    /\ UNCHANGED <<storeVars, otherVars>>

\* The goroutine sleeps again without mu.Unlock().
SweepUnlockKeepsLock ==
    /\ sweep.pc = "swept"
    /\ sweep' = [sweep EXCEPT !.pc = "sleep", !.since = now, !.was = <<>>]
    /\ UNCHANGED <<cfg, now, passed, mu, clients, h, served, run, ref>>
    /\ UNCHANGED <<storeVars, otherVars>>

\* The loop is over: mu.Unlock(), and the goroutine sleeps again.
SweepUnlock ==
    /\ sweep.pc = "swept"
    /\ mu' = Unlocked
    /\ sweep' = [sweep EXCEPT !.pc = "sleep", !.since = now, !.was = <<>>]
    /\ UNCHANGED <<cfg, now, passed, clients, h, served, run, ref>>
    /\ UNCHANGED <<storeVars, otherVars>>

NextLimiter ==
    \/ \E d \in Durations : Pass(d)
    \/ \E g \in Handlers, ip \in RemoteAddrs : Arrive(g, ip)
    \/ \E g \in Handlers : Critical(g)
    \/ \E g \in Handlers : UnlockReject(g)
    \/ \E g \in Handlers : RateLimitExceedResponse(g)
    \/ \E g \in Handlers : UnlockNext(g)
    \/ \E g \in Handlers : ServeNext(g)
    \/ SweepLock
    \/ SweepUnlock

SpecLimiter == InitLimiter /\ [][NextLimiter]_vars

\* The limiter, enabled, behind realIP, serving connections without proxy
\* headers: the requests carry the RemoteAddr of their connection.
InitKeying ==
    /\ cfg \in [enabled : {TRUE}, rps : 0..MaxRps, burst : 0..MaxBurst]
    /\ now = 0
    /\ passed = 0
    /\ mu = Unlocked
    /\ clients = <<>>
    /\ sweep = SweepStart(cfg.enabled)
    /\ h = [g \in Handlers |-> IdleHandler]
    /\ served = 0
    /\ run = [k \in ConnAddrs |-> NoRun]
    /\ ref = [k \in ConnAddrs |-> NewLimiter(cfg.rps, cfg.burst)]
    /\ InitStore
    /\ InitOther

NextKeying ==
    \/ \E d \in Durations : Pass(d)
    \/ \E g \in Handlers, ip \in ConnAddrs : Arrive(g, ip)
    \/ \E g \in Handlers : Critical(g)
    \/ \E g \in Handlers : UnlockReject(g)
    \/ \E g \in Handlers : RateLimitExceedResponse(g)
    \/ \E g \in Handlers : UnlockNext(g)
    \/ \E g \in Handlers : ServeNext(g)
    \/ SweepLock
    \/ SweepUnlock

SpecKeying == InitKeying /\ [][NextKeying]_vars

\* Scheduling: a goroutine that can run does run (the Go scheduler preempts),
\* and a goroutine waiting in mu.Lock() gets the mutex if it is released again
\* and again (sync.Mutex hands a starving waiter the mutex).  The sweep's
\* range loop over a finite map ends.  Nothing is assumed of the arrival of
\* requests, of the clock, or of how long next takes.
FairLimiter ==
    /\ \A g \in Handlers : SF_vars(Critical(g))
    /\ \A g \in Handlers : WF_vars(UnlockReject(g))
    /\ \A g \in Handlers : WF_vars(UnlockNext(g))
    /\ WF_vars(SweepUnlock)

\* The limiter enabled, with the largest rate and burst of the model: what the
\* goroutines do with the mutex does not depend on the numbers.
InitLimiterFair ==
    /\ InitLimiter
    /\ cfg = [enabled |-> TRUE, rps |-> MaxRps, burst |-> MaxBurst]

SpecLimiterFair == InitLimiterFair /\ [][NextLimiter]_vars /\ FairLimiter

(* ----------------------- rate limiter: claims -------------------------- *)
\* The tokens (scaled) a bucket gains over d ticks at the configured rate.
Gained(d) == IF cfg.rps <= 0 THEN 0 ELSE d * cfg.rps

Capacity == cfg.burst * TicksPerSecond

\* The bucket of run r was full before the first request of its instant: it
\* was just created, or its tokens plus the refill reach the capacity.
FullAtStart(r) == r.fresh \/ r.tokens + Gained(r.at - r.last) >= Capacity

\* C1: burst bound.  For a client key whose bucket of capacity C = burst is
\* full, of the requests handled with no time elapsed between them exactly the
\* first C are admitted (the handler goes on to next) and every later one, the
\* (C+1)-th first, is refused (the handler goes on to the 429 response).
C1_BurstBound ==
    /\ \A k \in RemoteAddrs :
          (run[k].at = now /\ FullAtStart(run[k])) =>
              \A i \in 1..Len(run[k].outs) : run[k].outs[i] = (i <= cfg.burst)
    /\ \A g \in Handlers :
          /\ (cfg.enabled /\ h[g].pc \in {"unlockNext", "next"}) => h[g].ok
          /\ h[g].pc \in {"unlockReject", "reject"} => ~h[g].ok

C1_Witness ==
    \E k \in RemoteAddrs, g \in Handlers :
        /\ cfg.burst >= 1
        /\ run[k].at = now /\ FullAtStart(run[k])
        /\ Len(run[k].outs) = cfg.burst + 1
        /\ h[g].pc = "reject" /\ h[g].ip = k

\* The bucket of run r had been drained to zero tokens, and the time since
\* then refills at least one token and less than two.
RefilledByOne(r) ==
    /\ ~r.fresh
    /\ cfg.burst >= 1
    /\ r.tokens = 0
    /\ Gained(r.at - r.last) >= TicksPerSecond
    /\ Gained(r.at - r.last) < 2 * TicksPerSecond

C3_SweepEvictsIdleOnly ==
    sweep.pc = "swept" =>
        /\ DOMAIN clients \subseteq DOMAIN sweep.was
        /\ \A k \in DOMAIN sweep.was :
              IF sweep.at - sweep.was[k].lastSeen > IdleThreshold
              THEN k \notin DOMAIN clients
              ELSE k \in DOMAIN clients /\ clients[k] = sweep.was[k]

C3_Witness ==
    /\ sweep.pc = "swept"
    /\ \E k \in DOMAIN sweep.was : k \notin DOMAIN clients
    /\ \E k \in DOMAIN sweep.was : k \in DOMAIN clients

\* C4: with the limiter disabled rateLimit is a no-op: no entry is ever put
\* in a client table, no sweep goroutine runs, the mutex is never taken, and
\* every request is in the next handler as soon as it is dispatched (it never
\* waits for the lock and never gets the 429 response).
C4_DisabledIsNoOp ==
    ~cfg.enabled =>
        /\ clients = <<>>
        /\ sweep.pc = "off"
        /\ mu = Unlocked
        /\ \A g \in Handlers : h[g].pc \in {"idle", "next"}

C4_Witness ==
    /\ ~cfg.enabled
    /\ passed = 0
    /\ served = MaxRequests
    /\ \A g \in Handlers : h[g].pc = "next"

(* ------------------------ internal/data: tokens ------------------------ *)
\* generateToken: the plaintext text, its digest, and expiry = now + ttl.
generateToken(userID, ttl, scope, text) ==
    [Plaintext |-> text, Hash |-> Sum256(text), UserID |-> userID,
     Expiry |-> now + ttl, Scope |-> scope]

RowKeepsPlaintext(token) ==
    [hash |-> token.Hash, user_id |-> token.UserID, expiry |-> token.Expiry,
     scope |-> token.Scope, plaintext |-> token.Plaintext]

\* The row TokenModel.Insert writes: INSERT INTO tokens (hash, user_id, expiry, scope).
Row(token) ==
    [hash |-> token.Hash, user_id |-> token.UserID, expiry |-> token.Expiry,
     scope |-> token.Scope]

\* The texts rand.Text() has not produced before.
Unused == {text \in RandText : \A tk \in issued : tk.Plaintext # text}

\* TokenModel.New(userID, ttl, scope): generateToken, then Insert.  When the
\* INSERT fails (fault) nothing is stored and New returns the error.
New(userID, ttl, scope, text, fault) ==
    /\ AtRest
    /\ text \in Unused
    /\ LET token == generateToken(userID, ttl, scope, text)
       IN  IF fault
           THEN /\ got' = [NoCall EXCEPT !.call = "New", !.res.err = "other"]
                /\ UNCHANGED <<tokens, issued>>
           ELSE /\ tokens' = tokens \cup {Row(token)}
                /\ issued' = issued \cup {token}
                /\ got' = NoCall
    /\ UNCHANGED <<otherVars, now, passed, limiterVars, users, permissions, req>>

\* The rows of the query of GetForToken: the join of users and tokens WHERE
\* tokens.hash = $1 AND tokens.scope = $2 AND tokens.expiry > $3.
MatchAnyScope(tokenScope, tokenHash, t) == t.hash = tokenHash /\ t.expiry > now

MatchAnyHash(tokenScope, tokenHash, t) == t.scope = tokenScope /\ t.expiry > now

MatchUntilExpiry(tokenScope, tokenHash, t) ==
    t.hash = tokenHash /\ t.scope = tokenScope /\ t.expiry >= now

Match(tokenScope, tokenHash, t) ==
    t.hash = tokenHash /\ t.scope = tokenScope /\ t.expiry > now

\* UserModel.GetForToken: the user of a matching row, ErrRecordNotFound when
\* no row matches (pgx.ErrNoRows), any other error of the query as it is.
GetForToken(tokenScope, tokenPlainText, fault) ==
    LET tokenHash == Sum256(tokenPlainText)
        rows == {t \in tokens : Match(tokenScope, tokenHash, t) /\ t.user_id \in DOMAIN users}
    IN  IF fault THEN [err |-> "other", user |-> NilUser]
        ELSE IF rows = {} THEN [err |-> "ErrRecordNotFound", user |-> NilUser]
        ELSE LET t == CHOOSE t \in rows : TRUE
             IN  [err  |-> "nil",
                  user |-> [ref |-> "heap", ID |-> t.user_id,
                            Activated |-> users[t.user_id].activated]]

\* ValidateTokenPlainText: v.Valid() after the two checks.
ValidateTokenPlainTextNotEmpty(tokenPlaintext) == tokenPlaintext # <<>>

ValidateTokenPlainText(tokenPlaintext) ==
    tokenPlaintext # <<>> /\ Len(tokenPlaintext) = TokenLen

\* The token texts a client may present: the issued ones, one that differs
\* from an issued one in one character, and texts of other lengths.
Presented ==
    RandText \cup
    {[i \in 1..TokenLen |-> IF i = 1 THEN "B" ELSE "A"],
     <<>>,
     <<"A", "A">>,
     [i \in 1..(TokenLen + 1) |-> "A"]}

\* A direct call of UserModel.GetForToken (as the activation handler makes,
\* after ValidateTokenPlainText).
GetForTokenCall(tokenScope, text, fault) ==
    /\ AtRest
    /\ ValidateTokenPlainText(text)
    /\ got' = [call |-> "GetForToken", scope |-> tokenScope, userID |-> "", text |-> text,
               at |-> now,
               res |-> GetForToken(tokenScope, text, fault)]
    /\ UNCHANGED <<otherVars, now, passed, limiterVars, tokens, users, permissions, issued, req>>

\* The rows of the statement of DeleteAllForUser: DELETE FROM tokens WHERE
\* scope = $1 AND user_id = $2.
DoomedAnyScope(scope, userID, t) == t.user_id = userID

Doomed(scope, userID, t) == t.scope = scope /\ t.user_id = userID

\* TokenModel.DeleteAllForUser: the error of the statement, if it fails.
DeleteAllForUser(scope, userID, fault) ==
    /\ AtRest
    /\ tokens' = IF fault THEN tokens ELSE {t \in tokens : ~Doomed(scope, userID, t)}
    /\ got' = [NoCall EXCEPT !.call = "DeleteAllForUser", !.scope = scope,
                             !.userID = userID, !.at = now,
                             !.res.err = IF fault THEN "other" ELSE "nil"]
    /\ UNCHANGED <<otherVars, now, passed, limiterVars, users, permissions, issued, req>>

\* The handler returns: the request, or the call, is over.
Return ==
    /\ req.pc = "done" \/ got.call # "none"
    /\ req' = NoRequest
    /\ got' = NoCall
    /\ UNCHANGED <<otherVars, now, passed, limiterVars, tokens, users, permissions, issued>>

\* Time passes.
Elapse ==
    /\ now < MaxClock
    /\ now' = now + 1
    /\ UNCHANGED <<passed, limiterVars, storeVars, otherVars>>

(* --------------------- internal/data: permissions ---------------------- *)
\* func (p Permissions) Include(code string) bool
Include(p, code) == code \in p

GetAllForUserCached(userID, fault) ==
    [err |-> "nil", permissions |-> {"movies:read"}]

\* PermissionModel.GetAllForUser: the codes joined to the user, none for an
\* id without rows; the error of the query when it fails.
GetAllForUser(userID, fault) ==
    IF fault THEN [err |-> "other", permissions |-> {}]
    ELSE [err |-> "nil",
          permissions |-> IF userID \in DOMAIN permissions THEN permissions[userID] ELSE {}]

(* --------------------------- authenticate ------------------------------ *)
Rejected(resp, n) == [next |-> FALSE, user |-> NilUser, resp |-> resp, lookups |-> n]
Proceed(user, n) == [next |-> TRUE, user |-> user, resp |-> "", lookups |-> n]

\* The switch on the result of GetForToken.
OnLookupLenient(res) ==
    IF res.err # "nil" THEN Proceed(AnonymousUser, 1) ELSE Proceed(res.user, 1)

OnLookup(res) ==
    IF res.err = "ErrRecordNotFound" THEN Rejected("invalidAuthenticationTokenResponse", 1)
    ELSE IF res.err # "nil" THEN Rejected("serverErrorResponse", 1)
    ELSE Proceed(res.user, 1)

\* authenticate: the user put in the request context and whether next is
\* called, or the response written; lookups counts the calls of GetForToken.
authenticate(authorizationHeader, fault) ==
    LET headerParts == Split(authorizationHeader, " ")
        token == headerParts[2]
    IN  IF authorizationHeader = NoHeader THEN Proceed(AnonymousUser, 0)
        ELSE IF Len(headerParts) # 2 \/ headerParts[1] # Bearer
             THEN Rejected("invalidCredentialsResponse", 0)
        ELSE IF ~ValidateTokenPlainText(token)
             THEN Rejected("invalidAuthenticationTokenResponse", 0)
        ELSE OnLookup(GetForToken(ScopeAuthentication, token, fault))

BearerHeader(text) == Bearer \o <<" ">> \o text

\* The Authorization headers a client may send.
Headers ==
    {NoHeader} \cup {BearerHeader(text) : text \in Presented} \cup
    {Bearer,
     <<"b", "e", "a", "r", "e", "r", " ">> \o [i \in 1..TokenLen |-> "A"],
     Bearer \o <<" ", " ">> \o [i \in 1..TokenLen |-> "A"],
     BearerHeader([i \in 1..TokenLen |-> "A"]) \o <<" ", "x">>}

\* A request with the given Authorization header, for a route that is wrapped
\* in requirePermissions(code, ...), runs through authenticate.
Authenticate(header, code, fault) ==
    /\ AtRest
    /\ LET a == authenticate(header, fault)
       IN  /\ fault => a.lookups = 1
           /\ req' = [pc |-> IF a.next THEN "authorize" ELSE "done",
                      header |-> header, code |-> code, user |-> a.user,
                      resp |-> a.resp, authNext |-> a.next, lookups |-> a.lookups,
                      permFault |-> FALSE, tokenFault |-> fault]
    /\ UNCHANGED <<otherVars, now, passed, limiterVars, tokens, users, permissions, issued, got>>

(* ----------------------- the authorization chain ----------------------- *)
\* Each stage yields the response it writes, or what the stage it wraps yields.
requireAuthenticatedUser(user, next) ==
    IF IsAnonymous(user) THEN "authenticationRequiredResponse" ELSE next

requireActivatedUserUnchecked(user, next) == requireAuthenticatedUser(user, next)

requireActivatedUser(user, next) ==
    requireAuthenticatedUser(user, IF ~user.Activated THEN "inactiveAccountResponse" ELSE next)

\* The error of GetAllForUser is not looked at.
requirePermissionsSkipsError(code, user, fault) ==
    LET got1 == GetAllForUser(user.ID, fault)
    IN  requireActivatedUser(user,
            IF ~Include(got1.permissions, code) THEN "notPermittedResponse" ELSE "next")

\* requirePermissions(code, next): "next" when the route handler is called.
requirePermissions(code, user, fault) ==
    LET got1 == GetAllForUser(user.ID, fault)
    IN  requireActivatedUser(user,
            IF got1.err # "nil" THEN "serverErrorResponse"
            ELSE IF ~Include(got1.permissions, code) THEN "notPermittedResponse"
            ELSE "next")

\* The permission lookup of the chain is reached and fails.
LookupFails(user, fault) == fault /\ ~IsAnonymous(user) /\ user.Activated

Authorize(fault) ==
    /\ req.pc = "authorize"
    /\ fault => LookupFails(req.user, fault)
    /\ req' = [req EXCEPT !.pc = "done",
                          !.resp = requirePermissions(req.code, req.user, fault),
                          !.permFault = LookupFails(req.user, fault)]
    /\ UNCHANGED <<otherVars, now, passed, limiterVars, tokens, users, permissions, issued, got>>

(* ------------------ changes of the permissions tables ------------------ *)
\* PRIMARY KEY (user_id, permission_id) of user_permissions: the statement
\* fails when the user holds one of the codes already.
DuplicateKey(userID, codes) == permissions[userID] \cap codes # {}

\* PermissionModel.AddForUser(userID, codes...): one INSERT of a row of
\* user_permissions per code; nothing is inserted when the statement fails.
AddForUser(userID, codes, fault) ==
    /\ req.pc # "done" /\ got.call = "none"
    /\ permissions' = IF fault \/ DuplicateKey(userID, codes) THEN permissions
                      ELSE [permissions EXCEPT ![userID] = @ \cup codes]
    /\ UNCHANGED <<otherVars, now, passed, limiterVars, tokens, users, issued, req, got>>

\* A row of user_permissions is deleted in the database (the program has no
\* statement for it): the code is taken from the user.
RevokeForUser(userID, code) ==
    /\ req.pc # "done" /\ got.call = "none"
    /\ code \in permissions[userID]
    /\ permissions' = [permissions EXCEPT ![userID] = @ \ {code}]
    /\ UNCHANGED <<otherVars, now, passed, limiterVars, tokens, users, issued, req, got>>

(* ---------------------------- specification ---------------------------- *)
\* The limiter is switched off here: rateLimit hands every request on.
InitIdleServer ==
    /\ cfg = [enabled |-> FALSE, rps |-> 0, burst |-> 0]
    /\ now = 0
    /\ passed = 0
    /\ mu = Unlocked
    /\ clients = <<>>
    /\ sweep = SweepStart(FALSE)
    /\ h = [g \in Handlers |-> IdleHandler]
    /\ served = 0
    /\ run = [k \in RemoteAddrs |-> NoRun]
    /\ ref = [k \in RemoteAddrs |-> NewLimiter(cfg.rps, cfg.burst)]
    /\ InitStore

InitAuth == InitIdleServer /\ InitOther

NextAuth ==
    \/ Elapse
    \/ \E u \in UserIDs, ttl \in TTLs, sc \in Scopes, text \in RandText, f \in BOOLEAN :
          New(u, ttl, sc, text, f)
    \/ \E sc \in Scopes, text \in Presented, f \in BOOLEAN : GetForTokenCall(sc, text, f)
    \/ \E sc \in Scopes, u \in UserIDs, f \in BOOLEAN : DeleteAllForUser(sc, u, f)
    \/ \E hd \in Headers, code \in Codes, f \in BOOLEAN : Authenticate(hd, code, f)
    \/ \E f \in BOOLEAN : Authorize(f)
    \/ Return

SpecAuth == InitAuth /\ [][NextAuth]_vars

\* Requests to protected routes while permissions are granted and taken away.
NextPermissions ==
    \/ \E u \in UserIDs, ttl \in TTLs, text \in RandText :
          New(u, ttl, ScopeAuthentication, text, FALSE)
    \/ \E hd \in Headers, code \in Codes, f \in BOOLEAN : Authenticate(hd, code, f)
    \/ \E f \in BOOLEAN : Authorize(f)
    \/ Return
    \/ \E u \in UserIDs, codes \in SUBSET Codes, f \in BOOLEAN : AddForUser(u, codes, f)
    \/ \E u \in UserIDs, code \in Codes : RevokeForUser(u, code)

SpecPermissions == InitAuth /\ [][NextPermissions]_vars

(* ----------------- responses (cmd/api/errors.go) ----------------------- *)
\* The status each response helper writes: 401 for missing, invalid or expired
\* credentials, 403 for permission and activation failures, 429 for rate-limit
\* rejection, 500 for unexpected failures (the documented status semantics).
Status(resp) ==
    CASE resp = "invalidCredentialsResponse" -> 401
      [] resp = "invalidAuthenticationTokenResponse" -> 401
      [] resp = "authenticationRequiredResponse" -> 401
      [] resp = "inactiveAccountResponse" -> 403
      [] resp = "notPermittedResponse" -> 403
      [] resp = "rateLimitExceedResponse" -> 429
      [] resp = "serverErrorResponse" -> 500
      [] OTHER -> 200

(* ------------------------- realIP / getRealIP --------------------------- *)
\* http.CanonicalHeaderKey of the names the program reads, and the name
\* proxies send the forwarded-for list under.
trueClientIP == "True-Client-Ip"
xForwardedFor == "X-Forward-For"
xRealIP == "X-Real-Ip"
ForwardedFor == "X-Forwarded-For"
HeaderNames == {trueClientIP, xRealIP, xForwardedFor, ForwardedFor}

IP1 == <<"1", "0", ".", "0", ".", "0", ".", "1">>
IP2 == <<"1", "0", ".", "0", ".", "0", ".", "2">>
Garbage == <<"n", "o", "p", "e">>
\* r.RemoteAddr as net/http sets it: host:port.
RawAddr == <<"1", "0", ".", "0", ".", "0", ".", "9", ":", "8", "0">>

\* The values a header comes with; the empty string when it is absent.
HeaderValues ==
    {<<>>, IP1, IP2, Garbage, IP1 \o <<",", " ">> \o IP2, Garbage \o <<",">> \o IP1}

Requests == [Header : [HeaderNames -> HeaderValues], RemoteAddr : {RawAddr}]

\* strings.Cut(s, sep).
Cut(s, sep) ==
    LET at == {i \in 1..Len(s) : s[i] = sep}
    IN  IF at = {} THEN [before |-> s, after |-> <<>>, found |-> FALSE]
        ELSE LET i == CHOOSE i \in at : \A j \in at : i <= j
             IN  [before |-> SubSeq(s, 1, i - 1), after |-> SubSeq(s, i + 1, Len(s)),
                  found |-> TRUE]

\* net.ParseIP(ip) != nil, for the texts above.
ParseIP(ip) == ip \in {IP1, IP2}

\* getRealIP: the first header that is not empty decides; "" unless its
\* value (for the list, its first entry) parses.
getRealIP(r) ==
    LET tcpi == r.Header[trueClientIP]
        xrip == r.Header[xRealIP]
        xff  == r.Header[xForwardedFor]
        ip   == IF tcpi # <<>> THEN tcpi
                ELSE IF xrip # <<>> THEN xrip
                ELSE IF xff # <<>> THEN Cut(xff, ",").before
                ELSE <<>>
    IN  IF ip = <<>> \/ ~ParseIP(ip) THEN <<>> ELSE ip

\* realIP: the request handed to next.
realIP(r) ==
    LET rip == getRealIP(r)
    IN  IF rip # <<>> THEN [r EXCEPT !.RemoteAddr = rip] ELSE r

\* One request goes through realIP.
RealIP ==
    /\ call.fn = "realIP" /\ ~call.done
    /\ call' = [call EXCEPT !.out = realIP(call.in).RemoteAddr, !.done = TRUE]
    /\ UNCHANGED <<now, passed, limiterVars, storeVars, conns, records, editors, srv, mail>>

InitRealIP ==
    /\ InitIdleServer
    /\ InitConns
    /\ InitRecords
    /\ InitServe
    /\ InitMail
    /\ call \in {[fn |-> "realIP", in |-> r, out |-> <<>>, done |-> FALSE] : r \in Requests}

SpecRealIP == InitRealIP /\ [][RealIP]_vars

(* ------------------------ internal/data: filters ------------------------ *)
\* Validator.Check(ok, key, message): the key gets an error when ok is false.
Check(errors, ok, key) == IF ok THEN errors ELSE errors \cup {key}

PermittedPrefix(value, permittedValues) ==
    \E i \in 1..Len(permittedValues) :
        /\ Len(value) <= Len(permittedValues[i])
        /\ SubSeq(permittedValues[i], 1, Len(value)) = value

\* validator.PermittedValues(value, permitted...): value is one of them.
PermittedValues(value, permittedValues) ==
    \E i \in 1..Len(permittedValues) : permittedValues[i] = value

\* The sort keys a handler permits, and those a client may send.
SortSafeList ==
    << <<"i", "d">>, <<"t", "i", "t", "l", "e">>,
       <<"-", "i", "d">>, <<"-", "t", "i", "t", "l", "e">> >>

Sorts ==
    {SortSafeList[i] : i \in 1..Len(SortSafeList)} \cup
    {<<>>, <<"-">>, <<"t", "i", "t", "l">>, <<"t", "i", "t", "l", "e", ";">>,
     <<"-", "-", "i", "d">>, <<"I", "D">>}

Pages == {-1, 0, 1, 2, MaxPage, MaxPage + 1}
PageSizes == {-1, 0, 1, 2, MaxPageSize, MaxPageSize + 1}

FiltersArgs == [Page : Pages, PageSize : PageSizes, Sort : Sorts, SortSafeList : {SortSafeList}]

\* ValidateFilters(v, f): the keys that have an error afterwards.
ValidateFilters(f) ==
    LET e1 == Check({}, f.Page > 0, "page")
        e2 == Check(e1, f.Page <= MaxPage, "page")
        e3 == Check(e2, f.PageSize > 0, "page_size")
        e4 == Check(e3, f.PageSize <= MaxPageSize, "page_size")
    IN  Check(e4, PermittedValues(f.Sort, f.SortSafeList), "sort")

\* strings.HasPrefix and strings.TrimPrefix.
HasPrefix(s, prefix) == Len(s) >= Len(prefix) /\ SubSeq(s, 1, Len(prefix)) = prefix
TrimPrefix(s, prefix) == IF HasPrefix(s, prefix) THEN SubSeq(s, Len(prefix) + 1, Len(s)) ELSE s

\* Filters.getSortColumn: the column, or the panic.
getSortColumnUnchecked(f) == [panic |-> FALSE, column |-> TrimPrefix(f.Sort, <<"-">>)]

getSortColumn(f) ==
    IF \E i \in 1..Len(f.SortSafeList) : f.Sort = f.SortSafeList[i]
    THEN [panic |-> FALSE, column |-> TrimPrefix(f.Sort, <<"-">>)]
    ELSE [panic |-> TRUE, column |-> <<>>]

\* Filters.getSortDirection.
getSortDirection(f) == IF HasPrefix(f.Sort, <<"-">>) THEN "DESC" ELSE "ASC"

\* MovieModel.GetAll: the ORDER BY clause of the query it formats; none when
\* getSortColumn panics.
OrderBy(f) ==
    LET col == getSortColumn(f)
    IN  IF col.panic THEN [panic |-> TRUE, query |-> FALSE, column |-> <<>>, direction |-> ""]
        ELSE [panic |-> FALSE, query |-> TRUE, column |-> col.column,
              direction |-> getSortDirection(f)]

\* calculateMetadata(totalRecords, page, pageSize).
Metadata(currentPage, pageSize, totalPages, totalRecords, hasNext, hasPrev) ==
    [CurrentPage |-> currentPage, PageSize |-> pageSize, TotalPages |-> totalPages,
     TotalRecords |-> totalRecords, HasNext |-> hasNext, HasPrev |-> hasPrev]

calculateMetadataRoundsDown(totalRecords, page, pageSize) ==
    IF totalRecords = 0 THEN Metadata(0, 0, 0, 0, FALSE, FALSE)
    ELSE LET totalPages == totalRecords \div pageSize
         IN  Metadata(page, pageSize, totalPages, totalRecords, page < totalPages, page > 1)

calculateMetadata(totalRecords, page, pageSize) ==
    IF totalRecords = 0 THEN Metadata(0, 0, 0, 0, FALSE, FALSE)
    ELSE LET totalPages == (totalRecords + pageSize - 1) \div pageSize
         IN  Metadata(page, pageSize, totalPages, totalRecords, page < totalPages, page > 1)

MetadataArgs ==
    [totalRecords : 0..MaxRecords, page : 1..MaxPageArg,
     pageSize : (1..MaxSizeArg) \cup {MaxPageSize}]

\* The functions are applied to their arguments.
ValidateFiltersCall ==
    /\ call.fn = "ValidateFilters" /\ ~call.done
    /\ call' = [call EXCEPT !.out = ValidateFilters(call.in), !.done = TRUE]
    /\ UNCHANGED <<now, passed, limiterVars, storeVars, conns, records, editors, srv, mail>>

\* Filters.getLimit and Filters.getOffSet.
getLimit(f) == f.PageSize
getOffSet(f) == (f.Page - 1) * f.PageSize

\* The rows the query of GetAll returns when matching rows of the table
\* satisfy its WHERE clause: those after the first OFFSET of them, LIMIT at
\* most; a negative LIMIT or OFFSET is an error of the statement.  Every row
\* returned carries count(*) OVER(), the number of matching rows.
QueryRows(f, matching) ==
    IF getLimit(f) < 0 \/ getOffSet(f) < 0
    THEN [err |-> TRUE, rows |-> 0]
    ELSE [err  |-> FALSE,
          rows |-> IF matching > getOffSet(f)
                   THEN Min(getLimit(f), matching - getOffSet(f)) ELSE 0]

\* MovieModel.GetAll after the query: totalRecords is scanned from the rows
\* (it stays 0 when there is none), then calculateMetadata.
\* history: matching keeps the number of rows that satisfy the WHERE clause.
Listing(f, matching) ==
    LET q == QueryRows(f, matching)
        totalRecords == IF q.rows > 0 THEN matching ELSE 0
    IN  [err      |-> q.err,
         rows     |-> q.rows,
         matching |-> matching,
         metadata |-> IF q.err THEN Metadata(0, 0, 0, 0, FALSE, FALSE)
                      ELSE calculateMetadata(totalRecords, f.Page, f.PageSize)]

NoListing == [err |-> FALSE, rows |-> 0, matching |-> 0,
              metadata |-> Metadata(0, 0, 0, 0, FALSE, FALSE)]

GetAll(matching) ==
    /\ call.fn = "GetAll" /\ ~call.done
    /\ call' = [call EXCEPT
                   !.out = IF OrderBy(call.in).panic
                           THEN OrderBy(call.in) @@ NoListing
                           ELSE OrderBy(call.in) @@ Listing(call.in, matching),
                   !.done = TRUE]
    /\ UNCHANGED <<now, passed, limiterVars, storeVars, conns, records, editors, srv, mail>>

CalculateMetadataCall ==
    /\ call.fn = "calculateMetadata" /\ ~call.done
    /\ call' = [call EXCEPT
                   !.out = calculateMetadata(call.in.totalRecords, call.in.page,
                                             call.in.pageSize),
                   !.done = TRUE]
    /\ UNCHANGED <<now, passed, limiterVars, storeVars, conns, records, editors, srv, mail>>

Applied(fn, args) == {[fn |-> fn, in |-> a, out |-> <<>>, done |-> FALSE] : a \in args}

InitFilters ==
    /\ InitIdleServer
    /\ InitConns
    /\ InitRecords
    /\ InitServe
    /\ InitMail
    /\ call \in Applied("ValidateFilters", FiltersArgs) \cup Applied("GetAll", FiltersArgs)
                 \cup Applied("calculateMetadata", MetadataArgs)

NextFilters ==
    \/ ValidateFiltersCall
    \/ \E matching \in 0..MaxRecords : GetAll(matching)
    \/ CalculateMetadataCall

SpecFilters == InitFilters /\ [][NextFilters]_vars

(* ----------------------------- recoverPanic ----------------------------- *)
\* The stages recoverPanic wraps, outermost first.
Downstream == <<"realIP", "rateLimit", "authenticate", "requirePermissions", "handler">>

\* The response a stage writes when it ends the request itself.
Written(stage) ==
    CASE Downstream[stage] = "rateLimit" -> 429
      [] Downstream[stage] = "authenticate" -> 401
      [] Downstream[stage] = "requirePermissions" -> 403
      [] OTHER -> 200

\* The values the program panics with.
PanicValues == {"unsafe sort parameter", "missing password hash for user"}

deferredIgnoresPanic(c) == [c EXCEPT !.pc = "returned"]

\* recoverPanic's deferred function: pv := recover(); if pv != nil, set
\* Connection: close and write the server error response.
deferred(c) ==
    IF c.pv # NoPanic
    THEN [c EXCEPT !.pc = "returned", !.close = TRUE, !.status = Status("serverErrorResponse")]
    ELSE [c EXCEPT !.pc = "returned"]

\* recoverPanic calls next.ServeHTTP for a request on connection c.
ServeHTTP(c) ==
    /\ conns[c].pc \in {"idle", "returned"}
    /\ conns' = [conns EXCEPT ![c] =
                    [IdleConn EXCEPT !.pc = "next", !.stage = 1,
                        !.after = \E k \in Conns : conns[k].pc = "returned"
                                                     /\ conns[k].pv # NoPanic]]
    /\ UNCHANGED <<now, passed, limiterVars, storeVars, call, records, editors, srv, mail>>

\* A stage calls the stage it wraps.
NextStage(c) ==
    /\ conns[c].pc = "next" /\ conns[c].stage < Len(Downstream)
    /\ conns' = [conns EXCEPT ![c].stage = @ + 1]
    /\ UNCHANGED <<now, passed, limiterVars, storeVars, call, records, editors, srv, mail>>

\* A stage writes the response and returns; the stages around it return.
Responds(c) ==
    /\ conns[c].pc = "next"
    /\ conns' = [conns EXCEPT ![c].pc = "deferred", ![c].status = Written(conns[c].stage)]
    /\ UNCHANGED <<now, passed, limiterVars, storeVars, call, records, editors, srv, mail>>

\* A stage panics before a response is written; the stack unwinds.
Panics(c, pv) ==
    /\ conns[c].pc = "next"
    /\ conns' = [conns EXCEPT ![c].pc = "deferred", ![c].pv = pv]
    /\ UNCHANGED <<now, passed, limiterVars, storeVars, call, records, editors, srv, mail>>

\* The deferred function of recoverPanic runs.
Deferred(c) ==
    /\ conns[c].pc = "deferred"
    /\ conns' = [conns EXCEPT ![c] = deferred(conns[c])]
    /\ UNCHANGED <<now, passed, limiterVars, storeVars, call, records, editors, srv, mail>>

NextRecover ==
    \E c \in Conns :
        \/ ServeHTTP(c)
        \/ NextStage(c)
        \/ Responds(c)
        \/ \E pv \in PanicValues : Panics(c, pv)
        \/ Deferred(c)

InitRecover == InitIdleServer /\ InitOther

SpecRecover == InitRecover /\ [][NextRecover]_vars

(* ------------------- UserModel.Update, MovieModel.Update ---------------- *)
\* The row the UPDATE statement finds: WHERE id = $5 AND version = $6.
FindsAnyVersion(row, copy) == row.exists

Finds(row, copy) == row.exists /\ row.version = copy.Version

\* The handler reads the record: Get.
Get(e, id) ==
    /\ editors[e].pc = "idle"
    /\ records[id].exists
    /\ editors' = [editors EXCEPT ![e] =
                      [pc |-> "read", read |-> records[id].version, err |-> "nil",
                       copy |-> [ID |-> id, Version |-> records[id].version,
                                 Content |-> records[id].content]]]
    /\ UNCHANGED <<now, passed, limiterVars, storeVars, call, conns, records, srv, mail>>

\* Update(copy with new content): one UPDATE ... SET version = version + 1
\* ... RETURNING version, scanned into copy.Version.  No row: ErrEditConflict.
\* The statement may fail (a unique constraint, the connection): its error.
Update(e, content, failure) ==
    LET copy == editors[e].copy
        row  == records[copy.ID]
    IN  /\ editors[e].pc = "read"
        /\ row.version < MaxVersion
        /\ IF failure # "nil"
           THEN /\ editors' = [editors EXCEPT ![e].pc = "done", ![e].err = failure]
                /\ UNCHANGED records
           ELSE IF Finds(row, copy)
           THEN /\ records' = [records EXCEPT ![copy.ID].content = content,
                                              ![copy.ID].version = @ + 1]
                /\ editors' = [editors EXCEPT ![e].pc = "done", ![e].err = "nil",
                                              ![e].copy.Content = content,
                                              ![e].copy.Version = row.version + 1]
           ELSE /\ editors' = [editors EXCEPT ![e].pc = "done", ![e].err = "ErrEditConflict"]
                /\ UNCHANGED records
        /\ UNCHANGED <<now, passed, limiterVars, storeVars, call, conns, srv, mail>>

\* MovieModel.Delete: the row is gone.
Delete(id) ==
    /\ records[id].exists
    /\ records' = [records EXCEPT ![id].exists = FALSE]
    /\ UNCHANGED <<now, passed, limiterVars, storeVars, call, conns, editors, srv, mail>>

\* The handler has answered.
Answered(e) ==
    /\ editors[e].pc = "done"
    /\ editors' = [editors EXCEPT ![e] = IdleEditor]
    /\ UNCHANGED <<now, passed, limiterVars, storeVars, call, conns, records, srv, mail>>

Failures == {"nil", "ErrDuplicatedEmail", "other"}

NextUpdate ==
    \/ \E e \in Editors, id \in RecordIDs : Get(e, id)
    \/ \E e \in Editors, content \in Contents, failure \in Failures : Update(e, content, failure)
    \/ \E id \in RecordIDs : Delete(id)
    \/ \E e \in Editors : Answered(e)

InitUpdate == InitIdleServer /\ InitOther

SpecUpdate == InitUpdate /\ [][NextUpdate]_vars

(* ------------------------------ Mailer.Send ----------------------------- *)
mailFrame == <<now, passed, limiterVars, storeVars, call, conns, records, editors, srv>>

\* m.client.DialAndSend(msg) returns nil or an error.
DialErrors == {"timeout", "refused"}

\* Send is called; the templates are rendered and the message is built:
\* for i := 1.
Send(m) ==
    /\ mail[m].pc = "idle"
    /\ mail' = [mail EXCEPT ![m] = [IdleSender EXCEPT !.pc = "for", !.i = 1]]
    /\ UNCHANGED mailFrame

\* i < 3: err = m.client.DialAndSend(msg); if err == nil { return nil }.
DialAndSend(m, result) ==
    /\ mail[m].pc = "for" /\ mail[m].i < SendLoopEnd
    /\ mail' = [mail EXCEPT ![m].err = result,
                            ![m].results = Append(@, result),
                            ![m].pc = IF result = NoError THEN "returned" ELSE "failed",
                            ![m].ret = NoError]
    /\ UNCHANGED mailFrame

\* The delay in milliseconds that follows the failed attempt i.
Delay(i) == IF i # SendNoSleepAt THEN SendSleepMillis ELSE 0

\* if i != 3 { time.Sleep(500 * time.Millisecond) }; i++.
Sleep(m) ==
    /\ mail[m].pc = "failed"
    /\ mail' = [mail EXCEPT ![m].slept = @ + Delay(mail[m].i),
                            ![m].i = @ + 1,
                            ![m].pc = "for"]
    /\ UNCHANGED mailFrame

\* The loop is left with i = 3: return err.
SendGivesUp(m) ==
    /\ mail[m].pc = "for" /\ ~(mail[m].i < SendLoopEnd)
    /\ mail' = [mail EXCEPT ![m].pc = "returned", ![m].ret = mail[m].err]
    /\ UNCHANGED mailFrame

\* The caller has the result.
SendReturned(m) ==
    /\ mail[m].pc = "returned"
    /\ mail' = [mail EXCEPT ![m] = IdleSender]
    /\ UNCHANGED mailFrame

NextMail ==
    \/ \E m \in Senders : Send(m)
    \/ \E m \in Senders, result \in DialErrors \cup {NoError} : DialAndSend(m, result)
    \/ \E m \in Senders : Sleep(m)
    \/ \E m \in Senders : SendGivesUp(m)
    \/ \E m \in Senders : SendReturned(m)

InitMailer == InitIdleServer /\ InitOther

SpecMail == InitMailer /\ [][NextMail]_vars

(* ------------------------- serve() and background() --------------------- *)
\* What no step of serve() touches.
serveFrame == <<now, passed, limiterVars, storeVars, call, conns, records, editors, mail>>

\* The server accepts a connection and serves a request on it.
RequestArrives ==
    /\ srv.accepting /\ srv.inflight < MaxInflight
    /\ srv' = [srv EXCEPT !.inflight = @ + 1]
    /\ UNCHANGED serveFrame

\* A handler returns; its connection is idle.
RequestDone ==
    /\ srv.inflight > 0
    /\ srv' = [srv EXCEPT !.inflight = @ - 1]
    /\ UNCHANGED serveFrame

\* background(fn), called by a handler: app.wg.Add(1), then the go statement.
BackgroundAdd(t) ==
    /\ srv.inflight > 0 /\ srv.tasks[t] = "none"
    /\ srv' = [srv EXCEPT !.wg = @ + 1, !.tasks[t] = "added", !.ended[t] = ""]
    /\ UNCHANGED serveFrame

BackgroundGo(t) ==
    /\ srv.tasks[t] = "added"
    /\ srv' = [srv EXCEPT !.tasks[t] = "fn"]
    /\ UNCHANGED serveFrame

\* wg.Done() called after fn() instead of deferred: a panic skips it.
unwindDoneNotDeferred(s, t, panics) ==
    [s EXCEPT !.wg = IF panics THEN @ ELSE @ - 1,
              !.tasks[t] = "none",
              !.ended[t] = IF panics THEN "recovered" ELSE "returned"]

\* The goroutine of background after fn() has returned or panicked: the
\* deferred functions run, last deferred first.  pv := recover() stops the
\* panic and the value is logged; then wg.Done().  A panic that nothing
\* recovers ends the process.
unwind(s, t, panics) ==
    LET recovered == panics
    IN  [s EXCEPT !.wg = @ - 1,
                  !.tasks[t] = "none",
                  !.ended[t] = IF recovered THEN "recovered" ELSE "returned",
                  !.crashed = @ \/ (panics /\ ~recovered)]

\* fn returns or panics, and the goroutine ends.
BackgroundEnds(t, panics) ==
    /\ srv.tasks[t] = "fn"
    /\ srv' = unwind(srv, t, panics)
    /\ UNCHANGED serveFrame

\* ListenAndServe fails for another reason than ErrServerClosed: serve
\* returns that error.
ListenFails ==
    /\ srv.main = "ListenAndServe" /\ srv.sig = "quit"
    /\ srv' = [srv EXCEPT !.main = "returned", !.ret = "err", !.accepting = FALSE]
    /\ UNCHANGED serveFrame

\* s := <-quit; the goroutine calls srv.Shutdown(ctx) with a context of 30
\* seconds: the listeners are closed.
Signal ==
    /\ srv.main = "ListenAndServe" /\ srv.sig = "quit"
    /\ srv' = [srv EXCEPT !.sig = "Shutdown", !.accepting = FALSE, !.window = "running"]
    /\ UNCHANGED serveFrame

\* ListenAndServe returns ErrServerClosed: serve goes on to <-shutdownError.
ServerClosed ==
    /\ srv.main = "ListenAndServe" /\ srv.sig # "quit"
    /\ srv' = [srv EXCEPT !.main = "receive"]
    /\ UNCHANGED serveFrame

\* The 30 seconds of the context pass.
WindowElapses ==
    /\ srv.window = "running"
    /\ srv' = [srv EXCEPT !.window = "elapsed"]
    /\ UNCHANGED serveFrame

\* srv.Shutdown returns: the error of closing the listeners (nil, mostly)
\* once every connection is idle, ctx.Err() when the context is done first.
Shutdown(lnerr) ==
    /\ srv.sig = "Shutdown"
    /\ \/ /\ srv.inflight = 0
          /\ srv' = [srv EXCEPT !.sig = IF lnerr THEN "sendErr" ELSE "Wait",
                                !.shutdownErr = lnerr]
       \/ /\ srv.inflight > 0 /\ srv.window = "elapsed" /\ ~lnerr
          /\ srv' = [srv EXCEPT !.sig = "sendErr", !.shutdownErr = TRUE]
    /\ UNCHANGED serveFrame

\* shutdownError <- err meets err = <-shutdownError: serve returns err; the
\* goroutine goes on to app.wg.Wait().
SendErr ==
    /\ srv.sig = "sendErr" /\ srv.main = "receive"
    /\ srv' = [srv EXCEPT !.sig = "Wait", !.main = "returned", !.ret = "err"]
    /\ UNCHANGED serveFrame

\* app.wg.Wait() returns: the counter is zero.
Wait ==
    /\ srv.sig = "Wait" /\ srv.wg = 0
    /\ srv' = [srv EXCEPT !.sig = "sendNil"]
    /\ UNCHANGED serveFrame

\* shutdownError <- nil meets err = <-shutdownError: serve returns nil.
SendNil ==
    /\ srv.sig = "sendNil" /\ srv.main = "receive"
    /\ srv' = [srv EXCEPT !.sig = "end", !.main = "returned", !.ret = "nil"]
    /\ UNCHANGED serveFrame

NextServe ==
    \/ RequestArrives
    \/ RequestDone
    \/ \E t \in Tasks : BackgroundAdd(t)
    \/ \E t \in Tasks : BackgroundGo(t)
    \/ \E t \in Tasks, panics \in BOOLEAN : BackgroundEnds(t, panics)
    \/ ListenFails
    \/ Signal
    \/ ServerClosed
    \/ WindowElapses
    \/ \E lnerr \in BOOLEAN : Shutdown(lnerr)
    \/ SendErr
    \/ Wait
    \/ SendNil

InitServer == InitIdleServer /\ InitOther

SpecServe == InitServer /\ [][NextServe]_vars

(* --------------------- authentication: claims -------------------------- *)
\* The request went through the whole chain of requirePermissions.
Authorized == req.pc = "done" /\ req.authNext

\* The codes the store holds for the identity of the request.
Granted == IF req.user.ID \in DOMAIN permissions THEN permissions[req.user.ID] ELSE {}

\* C5: the authorization chain, for every identity class.  An anonymous
\* identity gets the authentication-required response; an authenticated one
\* that is not activated gets the inactive-account response; an activated one
\* whose permission set, as the store returns it, lacks the code gets the
\* not-permitted response; the route handler is called exactly for a
\* non-anonymous, activated identity whose returned set includes the code.
\* (The lookup of the set is taken to answer: its failure is the case of C28.)
C5_AuthorizationChain ==
    Authorized =>
        /\ IsAnonymous(req.user) => req.resp = "authenticationRequiredResponse"
        /\ (~IsAnonymous(req.user) /\ ~req.user.Activated) =>
              req.resp = "inactiveAccountResponse"
        /\ (~IsAnonymous(req.user) /\ req.user.Activated /\ ~req.permFault
              /\ req.code \notin Granted) => req.resp = "notPermittedResponse"
        /\ (req.resp = "next") <=>
              (~IsAnonymous(req.user) /\ req.user.Activated /\ ~req.permFault
                 /\ req.code \in Granted)

C5_Witness ==
    /\ Authorized
    /\ req.resp = "next"
    /\ req.user.ID = "alice"
    /\ req.code = "movies:read"

\* The issued authentication tokens that a header presents.
PresentedToken(header) ==
    {tk \in issued : header = BearerHeader(tk.Plaintext) /\ tk.Scope = ScopeAuthentication}

\* C6: when authenticate calls next, the context carries an identity that is
\* never nil; it is the AnonymousUser sentinel exactly when the request had no
\* Authorization header, and otherwise the stored user that owns the presented
\* token; IsAnonymous holds of the sentinel only, never of a loaded user.
C6_IdentityNeverNil ==
    req.authNext =>
        /\ req.user # NilUser /\ req.user.ref # "nil"
        /\ (req.header = NoHeader) <=> (req.user = AnonymousUser)
        /\ (req.header = NoHeader) <=> IsAnonymous(req.user)
        /\ req.header # NoHeader =>
              /\ req.user.ref = "heap"
              /\ req.user.ID \in UserIDs
              /\ req.user.Activated = users[req.user.ID].activated
              /\ \E tk \in PresentedToken(req.header) : tk.UserID = req.user.ID

C6_Witness ==
    /\ req.pc = "authorize"
    /\ req.header # NoHeader
    /\ req.user.ID = "bob"

\* The header is exactly two parts separated by one space, the first of them
\* Bearer: there is one space in it, and Bearer is what stands before it.
Spaces(header) == {i \in 1..Len(header) : header[i] = " "}
WellFormed(header) ==
    /\ Cardinality(Spaces(header)) = 1
    /\ \E i \in Spaces(header) : SubSeq(header, 1, i - 1) = Bearer
TokenPart(header) ==
    SubSeq(header, (CHOOSE i \in Spaces(header) : TRUE) + 1, Len(header))

\* C7: a request whose Authorization header is present but malformed, or whose
\* token part is empty or not 26 characters long, is answered 401 (invalid
\* credentials); next is not called and GetForToken is not called.
C7_MalformedRejected ==
    (req.pc # "none" /\ req.header # NoHeader
       /\ (~WellFormed(req.header) \/ Len(TokenPart(req.header)) # TokenLen)) =>
        /\ req.pc = "done"
        /\ ~req.authNext
        /\ req.resp \in {"invalidCredentialsResponse", "invalidAuthenticationTokenResponse"}
        /\ Status(req.resp) = 401
        /\ req.lookups = 0

C7_Witness ==
    /\ req.pc = "done"
    /\ WellFormed(req.header)
    /\ Len(TokenPart(req.header)) = 2
    /\ req.lookups = 0
    /\ tokens # {}

(* ------------------------ token store: claims -------------------------- *)
Alphabet == {"A", "B", "C"}

\* The texts that differ from text in exactly one character.
Tampered(text) ==
    {[text EXCEPT ![i] = c] : i \in 1..Len(text), c \in Alphabet} \ {text}

\* The row of the token is in the table: no DeleteAllForUser removed it.
Stored(tk) == \E t \in tokens : t.hash = tk.Hash

\* C8: token round trip.  For every token that New returned (and that was not
\* deleted since), GetForToken with its scope and its plaintext, before its
\* expiry, returns its owner; with a plaintext that differs in one character
\* it returns ErrRecordNotFound.
C8_RoundTrip ==
    \A tk \in issued :
        /\ (now < tk.Expiry /\ Stored(tk)) =>
              LET res == GetForToken(tk.Scope, tk.Plaintext, FALSE)
              IN  res.err = "nil" /\ res.user.ID = tk.UserID
        /\ \A text \in Tampered(tk.Plaintext) :
              GetForToken(tk.Scope, text, FALSE).err = "ErrRecordNotFound"

C8_Witness ==
    \E tk \in issued :
        /\ got.call = "GetForToken" /\ got.text = tk.Plaintext /\ got.scope = tk.Scope
        /\ got.at = now /\ now > 0 /\ now < tk.Expiry
        /\ got.res.err = "nil" /\ got.res.user.ID = tk.UserID

\* GetForToken finds the token no more, its expiry being reached.
Expired(tk) ==
    now >= tk.Expiry /\ GetForToken(tk.Scope, tk.Plaintext, FALSE).err = "ErrRecordNotFound"

\* C9: expiry is a predicate of the lookup.  GetForToken finds an issued token
\* only while now < expiry; from its expiry on it returns ErrRecordNotFound,
\* whether or not the row is still stored; and an expired token stays expired.
C9_ExpiryPredicate ==
    /\ [](\A tk \in issued :
             /\ GetForToken(tk.Scope, tk.Plaintext, FALSE).err = "nil" => now < tk.Expiry
             /\ now >= tk.Expiry => Expired(tk))
    /\ [][\A tk \in issued : Expired(tk) => (tk \in issued' /\ Expired(tk)')]_vars

C9_Witness ==
    \E tk \in issued :
        /\ now = tk.Expiry /\ Stored(tk)
        /\ got.call = "GetForToken" /\ got.text = tk.Plaintext /\ got.scope = tk.Scope
        /\ got.at = now /\ got.res.err = "ErrRecordNotFound"

\* C10: scope separation.  An issued token is found by GetForToken under its
\* own scope only; authenticate, which looks up under the authentication
\* scope, never calls next for a token issued with the activation scope.
C10_ScopeSeparation ==
    \A tk \in issued :
        /\ \A sc \in Scopes : GetForToken(sc, tk.Plaintext, FALSE).err = "nil" => sc = tk.Scope
        /\ tk.Scope = ScopeActivation =>
              /\ ~authenticate(BearerHeader(tk.Plaintext), FALSE).next
              /\ req.header = BearerHeader(tk.Plaintext) => ~req.authNext

C10_Witness ==
    \E tk \in issued :
        /\ tk.Scope = ScopeActivation /\ now < tk.Expiry
        /\ req.pc = "done" /\ req.header = BearerHeader(tk.Plaintext)
        /\ req.lookups = 1
        /\ req.resp = "invalidAuthenticationTokenResponse"

\* The latest call was a DeleteAllForUser that succeeded.
Deleted == got.call = "DeleteAllForUser" /\ got.res.err = "nil"

\* C11: DeleteAllForUser(scope, userID) removes every stored token of that
\* user and scope, so that every token issued for the pair is found no more
\* by GetForToken; it leaves the tokens of other users, and those of the same
\* user under the other scope, as they were, and adds none.
C11_DeleteAllForUser ==
    /\ [](Deleted =>
            /\ \A t \in tokens : ~(t.scope = got.scope /\ t.user_id = got.userID)
            /\ \A tk \in issued :
                  (tk.Scope = got.scope /\ tk.UserID = got.userID) =>
                     GetForToken(tk.Scope, tk.Plaintext, FALSE).err = "ErrRecordNotFound")
    /\ [][(got.call = "none" /\ Deleted') =>
            /\ tokens' \subseteq tokens
            /\ \A t \in tokens :
                  (t.scope # got'.scope \/ t.user_id # got'.userID) => t \in tokens'
            /\ UNCHANGED <<users, permissions, issued>>]_vars

C11_Witness ==
    /\ Deleted
    /\ got.at = now
    /\ \E tk \in issued :
          /\ tk.Scope = got.scope /\ tk.UserID = got.userID /\ now < tk.Expiry
          /\ ~Stored(tk)
    /\ \E tk \in issued :
          /\ tk.Scope # got.scope /\ tk.UserID = got.userID /\ now < tk.Expiry
          /\ Stored(tk)
          /\ GetForToken(tk.Scope, tk.Plaintext, FALSE).err = "nil"

\* C12: a row of the tokens table holds a hash, a user id, an expiry and a
\* scope and nothing else, the hash being the digest of the plaintext of an
\* issued token; no plaintext is stored by New, GetForToken or
\* DeleteAllForUser, and GetForToken, called directly or by authenticate,
\* writes nothing.
C12_OnlyHashStored ==
    /\ [](\A t \in tokens :
             /\ DOMAIN t = {"hash", "user_id", "expiry", "scope"}
             /\ t.user_id \in UserIDs /\ t.expiry \in Nat /\ t.scope \in Scopes
             /\ \E tk \in issued :
                   /\ t.hash = Sum256(tk.Plaintext)
                   /\ t.user_id = tk.UserID /\ t.expiry = tk.Expiry /\ t.scope = tk.Scope)
    /\ [][((got.call = "none" /\ got'.call = "GetForToken")
             \/ (req.pc = "none" /\ req'.pc # "none")) =>
            UNCHANGED <<tokens, users, permissions, issued>>]_vars

C12_Witness ==
    /\ got.call = "GetForToken" /\ got.res.err = "nil"
    /\ Cardinality(tokens) = 2
    /\ Cardinality(issued) = 2

\* requirePermissions decides about the request in this step.
Decides == req.pc = "authorize" /\ req'.pc = "done" /\ ~req'.permFault
             /\ ~IsAnonymous(req.user) /\ req.user.Activated

\* C13: immediate revocation.  requirePermissions decides by the permission
\* set that is in the store when it checks, not by an earlier copy: the
\* request is answered not-permitted when the code is not in the user's set
\* then (it was taken away before, or never granted), and goes on to the
\* handler when the code is in the set then (it was granted before).
C13_ImmediateRevocation ==
    [][Decides =>
         /\ req.code \notin permissions[req.user.ID] => req'.resp = "notPermittedResponse"
         /\ req.code \in permissions[req.user.ID] => req'.resp = "next"]_vars

C13_Witness ==
    /\ req.pc = "done" /\ req.user.ID = "alice" /\ req.code = "movies:read"
    /\ req.resp = "notPermittedResponse"
    /\ permissions["alice"] = {"movies:write"}

(* ----------------------------- realIP: claims -------------------------- *)
\* The key by the stated rule: the first of True-Client-IP, X-Real-IP and the
\* first entry of the forwarded-for list (under the name the program reads it
\* by) that parses as an IP, else the raw address.
StatedKey(r) ==
    LET sources == <<r.Header[trueClientIP], r.Header[xRealIP],
                     Cut(r.Header[xForwardedFor], ",").before>>
        parsing == {i \in 1..3 : ParseIP(sources[i])}
    IN  IF parsing = {} THEN r.RemoteAddr
        ELSE sources[CHOOSE i \in parsing : \A j \in parsing : i <= j]

\* C14: the resolved client key is the value of the first source, in the
\* order True-Client-IP, X-Real-IP, first entry of the forwarded-for header,
\* that parses as a valid IP; the raw connection address is used if and only
\* if none of the three parses.
C14_FirstParsingSource ==
    (call.fn = "realIP" /\ call.done) => call.out = StatedKey(call.in)

(* -------------------------- recoverPanic: claims ------------------------ *)
\* C15: a panic at any stage below recoverPanic is caught by it: the request
\* is answered with the server error response (500) on a connection marked
\* Connection: close.  The panic ends that request only: a step of one
\* request changes no other, and a request that does not panic, served
\* meanwhile or afterwards, gets the response its stages wrote, unmarked.
C15_PanicRecovered ==
    /\ [](\A c \in Conns :
             conns[c].pc = "returned" =>
                IF conns[c].pv # NoPanic
                THEN conns[c].status = 500 /\ conns[c].close
                ELSE conns[c].status = Written(conns[c].stage) /\ ~conns[c].close)
    /\ [][\A c, k \in Conns :
             (conns[c].pv # NoPanic /\ conns'[c] # conns[c] /\ k # c) =>
                conns'[k] = conns[k]]_vars

C15_Witness ==
    \E c, k \in Conns :
        /\ conns[c].pc = "returned" /\ conns[c].pv = "unsafe sort parameter"
        /\ conns[c].stage = Len(Downstream)
        /\ conns[c].status = 500 /\ conns[c].close
        /\ conns[k].pc = "returned" /\ conns[k].pv = NoPanic /\ conns[k].after
        /\ conns[k].status = 200 /\ ~conns[k].close

(* ----------------------------- filters: claims -------------------------- *)
\* The sort key is one of the safe list, as a whole string.
Safe(f) == f.Sort \in {f.SortSafeList[i] : i \in 1..Len(f.SortSafeList)}

InRange(f) == f.Page >= 1 /\ f.Page <= MaxPage /\ f.PageSize >= 1 /\ f.PageSize <= MaxPageSize

\* C16: ValidateFilters reports an error for every directive with page < 1,
\* page > 10,000,000, pageSize < 1, pageSize > 100 or a sort value that is not
\* a full-string member of the safe list (each under its own key), and no
\* error for a directive in range with a safe sort value.
C16_ValidateFilters ==
    (call.fn = "ValidateFilters" /\ call.done) =>
        LET f == call.in
        IN  /\ (f.Page < 1 \/ f.Page > MaxPage) <=> ("page" \in call.out)
            /\ (f.PageSize < 1 \/ f.PageSize > MaxPageSize) <=> ("page_size" \in call.out)
            /\ ~Safe(f) <=> ("sort" \in call.out)
            /\ (InRange(f) /\ Safe(f)) <=> (call.out = {})

C16_Witness ==
    /\ call.fn = "ValidateFilters" /\ call.done
    /\ call.in.Page = MaxPage /\ call.in.PageSize = MaxPageSize
    /\ call.in.Sort = <<"t", "i", "t", "l">>
    /\ call.out = {"sort"}

\* C17: for a sort key of the safe list the column is the key without one
\* leading "-" and the direction is DESC if the key starts with "-", else
\* ASC; for a key outside the safe list getSortColumn panics and returns no
\* column, so GetAll formats no query: what stands in ORDER BY is always a
\* safe key's column.
C17_SortResolution ==
    (call.fn = "GetAll" /\ call.done) =>
        LET f == call.in
            key == f.Sort
        IN  /\ Safe(f) =>
                  /\ ~call.out.panic /\ call.out.query
                  /\ call.out.column = IF key[1] = "-" THEN Tail(key) ELSE key
                  /\ call.out.direction = IF key[1] = "-" THEN "DESC" ELSE "ASC"
            /\ ~Safe(f) => (call.out.panic /\ ~call.out.query /\ call.out.column = <<>>)
            /\ call.out.query =>
                  \E i \in 1..Len(f.SortSafeList) :
                      call.out.column \in {f.SortSafeList[i], Tail(f.SortSafeList[i])}

C17_Witness ==
    /\ call.fn = "GetAll" /\ call.done
    /\ call.in.Sort = <<"-", "t", "i", "t", "l", "e">>
    /\ call.out.column = <<"t", "i", "t", "l", "e">>
    /\ call.out.direction = "DESC"

\* The least n with n * pageSize >= totalRecords.
Ceil(totalRecords, pageSize) ==
    CHOOSE n \in 0..totalRecords :
        n * pageSize >= totalRecords /\ \A m \in 0..(n - 1) : m * pageSize < totalRecords

\* C18: calculateMetadata, for pageSize in [1,100], page >= 1 and
\* totalRecords >= 0: all fields are zero or false when totalRecords = 0;
\* otherwise totalPages = ceil(totalRecords / pageSize), page, pageSize and
\* totalRecords are echoed, hasNext = (page < totalPages), hasPrev = (page > 1).
C18_Metadata ==
    (call.fn = "calculateMetadata" /\ call.done) =>
        LET a == call.in
            m == call.out
        IN  IF a.totalRecords = 0
            THEN m = Metadata(0, 0, 0, 0, FALSE, FALSE)
            ELSE /\ m.TotalPages = Ceil(a.totalRecords, a.pageSize)
                 /\ m.CurrentPage = a.page
                 /\ m.PageSize = a.pageSize
                 /\ m.TotalRecords = a.totalRecords
                 /\ m.HasNext = (a.page < m.TotalPages)
                 /\ m.HasPrev = (a.page > 1)

C18_Witness ==
    /\ call.fn = "calculateMetadata" /\ call.done
    /\ call.in.totalRecords = 7 /\ call.in.pageSize = 3 /\ call.in.page = 2
    /\ call.out.TotalPages = 3 /\ call.out.HasNext /\ call.out.HasPrev

\* C27: listing metadata.  For every validated directive, the Metadata that
\* GetAll returns has totalRecords equal to the number of records that match
\* the filter, and is all zero only when no record matches, also when the
\* requested page lies beyond the last page.
C27_ListingMetadata ==
    (call.fn = "GetAll" /\ call.done /\ ValidateFilters(call.in) = {} /\ ~call.out.err) =>
        /\ call.out.metadata.TotalRecords = call.out.matching
        /\ call.out.metadata = Metadata(0, 0, 0, 0, FALSE, FALSE) => call.out.matching = 0

(* ------------------------------ Update: claims -------------------------- *)
\* Editor e runs its Update in this step.
Updates(e) == editors[e].pc = "read" /\ editors'[e].pc = "done"

WaitsForTask == srv.main = "receive" /\ srv.sig = "Wait" /\ srv.wg > 0

\* C20: after the shutdown signal serve() accepts no connection, and then
\* blocks until the count of background tasks is zero or the window of 30
\* seconds has elapsed: it does not return inside the window while a tracked
\* task is running, and it does not stay blocked on a task once the window
\* has elapsed.
C20_GracefulShutdown ==
    /\ srv.sig # "quit" => ~srv.accepting
    /\ (srv.main = "returned" /\ srv.sig # "quit" /\ srv.window = "running") => srv.wg = 0
    /\ srv.window = "elapsed" => ~WaitsForTask

\* The tasks for which background has called wg.Add(1) and whose goroutine
\* has not ended.
Unfinished == {t \in Tasks : srv.tasks[t] # "none"}

\* C29: background task accounting.  The counter of the WaitGroup is at every
\* moment the number of tasks that were added and have not ended, a task
\* that is added but not launched yet included, so it is never negative; a
\* task that ended, by return or by panic, is not counted any more; a panic
\* of fn is recovered and the process goes on.
C29_BackgroundAccounting ==
    /\ srv.wg = Cardinality(Unfinished)
    /\ srv.wg >= 0
    /\ ~srv.crashed
    /\ \A t \in Tasks : srv.ended[t] # "" => srv.tasks[t] = "none"

\* A task has panicked and ended while another one is still running.
C29_Witness ==
    \E t \in Tasks, u \in Tasks :
        /\ srv.ended[t] = "recovered" /\ srv.tasks[t] = "none"
        /\ srv.tasks[u] = "fn"
        /\ srv.wg = 1

\* C30: shutdown hand-off.  On every path of the shutdown, serve() returns
\* what srv.Shutdown returned (the error, or nil after the background tasks),
\* and nobody stays blocked on the shutdownError channel: the goroutine is
\* never in a send that serve() will not receive, and serve() is never in a
\* receive that the goroutine will not serve.
C30_HandOff ==
    /\ (srv.main = "returned" /\ srv.sig # "quit") =>
          srv.ret = (IF srv.shutdownErr THEN "err" ELSE "nil")
    /\ ~(srv.main = "returned" /\ srv.sig \in {"sendErr", "sendNil"})
    /\ ~(srv.main = "receive" /\ srv.sig = "end")

(* ------------------------- store failure: claims ------------------------ *)
\* C28: fail closed.  A request whose token lookup in authenticate fails with
\* an error other than not-found gets the server-error response (500), after
\* one lookup, and next is not called: it is not given the anonymous identity
\* and it never reaches the permission check.  A request whose permission
\* lookup in requirePermissions fails gets the server-error response (500)
\* and the protected handler is not called.
C28_FailClosed ==
    /\ (req.pc # "none" /\ req.tokenFault) =>
          /\ req.pc = "done"
          /\ ~req.authNext
          /\ req.resp = "serverErrorResponse" /\ Status(req.resp) = 500
          /\ ~IsAnonymous(req.user)
          /\ req.lookups = 1
    /\ (req.pc = "done" /\ req.permFault) =>
          /\ req.resp = "serverErrorResponse" /\ Status(req.resp) = 500

\* The permission lookup fails for a user who holds the permission of the route.
C28_Witness ==
    /\ req.pc = "done" /\ req.permFault
    /\ req.user.ID \in DOMAIN permissions
    /\ req.code \in permissions[req.user.ID]
    /\ req.resp = "serverErrorResponse"

\* The token lookup fails for a token that is stored and not expired.
C28_TokenLookupFails ==
    /\ req.pc = "done" /\ req.tokenFault
    /\ \E tk \in issued : req.header = BearerHeader(tk.Plaintext) /\ now < tk.Expiry /\ Stored(tk)

(* ------------------------ rate limiter: more claims --------------------- *)
\* The handler g is between mu.Lock() and its mu.Unlock().
InCritical(g) == h[g].pc \in {"unlockNext", "unlockReject"}

\* C21: lock discipline.  A handler holds the mutex only from mu.Lock()
\* through the lookup-or-create, the lastSeen stamp and Allow() to the unlock
\* of its path: a handler that is in the next stage, or that writes the 429
\* response, does not hold it; so while a handler is downstream the mutex is
\* free or held by a goroutine that is about to release it.
C21_LockDiscipline ==
    /\ \A g \in Handlers : (mu = g) <=> (cfg.enabled /\ InCritical(g))
    /\ \A g \in Handlers : h[g].pc \in {"next", "reject"} => mu # g
    /\ \A g \in Handlers :
          h[g].pc = "next" =>
              \/ mu = Unlocked
              \/ mu = Sweeper /\ sweep.pc = "swept"
              \/ mu \in Handlers \ {g} /\ InCritical(mu)

\* While one client's request is downstream, another client's request takes
\* the mutex and is admitted.
C21_Witness ==
    \E g \in Handlers, g2 \in Handlers :
        /\ cfg.enabled
        /\ h[g].pc = "next" /\ h[g2].pc = "unlockNext"
        /\ h[g].ip # h[g2].ip
        /\ mu = g2

Decided(g) == h[g].pc = "lock" /\ h'[g].pc \in {"unlockNext", "unlockReject"}

\* C23: lastSeen follows activity.  Every request that is decided, admitted
\* or refused, leaves the entry of its key with lastSeen equal to the time of
\* the request; and an entry leaves the table only when its lastSeen is more
\* than the idle threshold in the past.  So the entry of a key whose requests
\* are less than the threshold apart stays, even if all of them are refused.
C23_LastSeenOnEveryRequest ==
    [][(\A g \in Handlers :
            Decided(g) =>
                /\ h[g].ip \in DOMAIN clients'
                /\ clients'[h[g].ip].lastSeen = now)
       /\ (\A k \in DOMAIN clients :
              /\ k \notin DOMAIN clients' => now - clients[k].lastSeen > IdleThreshold
              /\ clients[k].lastSeen <= now)]_vars

\* A refused request of a key that already had an entry, at a later time.
C23_Witness ==
    \E g \in Handlers :
        /\ h[g].pc = "unlockReject"
        /\ now > 0
        /\ run[h[g].ip].at = now /\ ~run[h[g].ip].fresh
        /\ clients[h[g].ip].lastSeen = now

\* C26: eviction does not weaken the limit.  For every configuration, a rate
\* of zero included, every request gets from the table with eviction and
\* re-creation the answer that a bucket of its key that is never evicted
\* gives to the same sequence of requests.
C26_EvictionKeepsLimit ==
    \A g \in Handlers :
        (cfg.enabled /\ h[g].pc \in {"unlockNext", "unlockReject", "next", "reject"}) =>
            h[g].ok = h[g].ref

\* C25: rate-limit keying.  All requests of one client IP are counted against
\* one bucket, also when they come without proxy header over connections
\* with different source ports: the table never holds two entries for one
\* IP, so it never holds more entries than there are client IPs.
C25_OneBucketPerIP ==
    /\ \A k1 \in DOMAIN clients, k2 \in DOMAIN clients : Host(k1) = Host(k2) => k1 = k2
    /\ Cardinality(DOMAIN clients) <= Cardinality({Host(k) : k \in ConnAddrs})

(* ------------------------------ mail: claims ---------------------------- *)
\* The number of attempts Send makes when every one of them fails.
Attempts == SendLoopEnd - 1

\* C24: mail retry.  When Send has returned it has made at most a fixed
\* number of attempts; it returns nil exactly when its last attempt was the
\* first to succeed; when every attempt has failed it returns the error of
\* the last one; and it has slept 500 ms between consecutive attempts only,
\* so not after the final failed attempt.
C24_MailRetry ==
    \A m \in Senders :
        mail[m].pc = "returned" =>
            LET n == Len(mail[m].results)
            IN  /\ n >= 1 /\ n <= Attempts
                /\ \A j \in 1..(n - 1) : mail[m].results[j] # NoError
                /\ mail[m].ret = mail[m].results[n]
                /\ mail[m].ret # NoError => n = Attempts
                /\ mail[m].slept = (n - 1) * SendSleepMillis

====
